---- MODULE Spec2Model ----
(***************************************************************************)
(* State-machine model of the two estimators of the biomechanical analysis *)
(* framework:                                                              *)
(*   HumanIK  (src/src/IK/src/InverseKinematics.cpp) and its Python        *)
(*            binding (src/bindings/python/IK/src/InverseKinematics.cpp),  *)
(*   HumanID  (src/src/ID/src/InverseDynamics.cpp).                        *)
(* Numeric quantities are abstracted to small integer domains: a rotation  *)
(* is an element of the permutation group S3 (non-commutative, with        *)
(* inverses), a joint vector is a sequence of integers, a wrench (six      *)
(* components in the code) is one integer block.                           *)
(***************************************************************************)
EXTENDS Integers, Sequences, FiniteSets, TLC

\* ------------------------------------------------------------------ bounds
\* Degrees of freedom of the articulated model handed to initialize.
NrDoFs == 2

\* ------------------------------------------------------------- value domains
\* Joint and base positions (integration wraps around).
Positions == {0, 1, 2}
\* Joint and base velocities the QP solver may output.
Velocities == {0, 1}
\* Integration steps accepted by setDt (0 stands for a step never set).
Durations == {1, 2}
\* Node numbers used by configurations and by per-node calls.
Nodes == {1, 2, 3}
\* Node numbers a configuration may declare.
ConfNodes == {1, 2}

\* A vector of length n whose entries are all v.
Vec(n, v) == [i \in 1..n |-> v]

\* --------------------------------------------------------------- rotations
\* manif::SO3d, abstracted to the permutations of 1..3.
Rot == {p \in [1..3 -> 1..3] : \A i, j \in 1..3 : i # j => p[i] # p[j]}
RotId == [i \in 1..3 |-> i]
\* operator* of manif::SO3d.
RotMul(p, q) == [i \in 1..3 |-> p[q[i]]]
\* manif::SO3d::inverse().
RotInv(p) == [i \in 1..3 |-> CHOOSE j \in 1..3 : p[j] = i]
\* Rotations supplied by callers and configurations.
RotSwap == <<2, 1, 3>>
RotCyc == <<2, 3, 1>>
RotInputs == {RotId, RotSwap, RotCyc}

\* ------------------------------------------------------------------- state
VARIABLES
    kd,                 \* state held by the caller's KinDynComputations object
    ik_kinDyn,          \* HumanIK::m_kinDyn: "null" or "model"
    m_nrDoFs,           \* HumanIK::m_nrDoFs
    m_jointPositions,   \* HumanIK::m_jointPositions
    m_jointVelocities,  \* HumanIK::m_jointVelocities
    m_basePose,         \* HumanIK::m_basePose
    m_baseVelocity,     \* HumanIK::m_baseVelocity
    m_system,           \* HumanIK::m_system (dynamics state and integrator step)
    m_dtIntegration,    \* HumanIK::m_dtIntegration
    m_OrientationTasks, \* HumanIK::m_OrientationTasks: node -> task data
    m_GravityTasks,     \* HumanIK::m_GravityTasks: the nodes holding an entry
    m_qpIK,             \* HumanIK::m_qpIK: registered tasks, initialized, finalized
    ik_ret,             \* the last HumanIK call: operation, argument, result, output
    id_kinDyn,          \* HumanID::m_kinDyn: "null" or "model"
    m_humanMass,        \* HumanID::m_humanMass
    m_kinState,         \* HumanID::m_kinState
    m_jointTorquesHelper,   \* HumanID::m_jointTorquesHelper
    m_extWrenchesEstimator, \* HumanID::m_extWrenchesEstimator
    m_wrenchSources,    \* HumanID::m_wrenchSources
    m_estimatedExtWrenches, \* HumanID::m_estimatedExtWrenches
    m_mapEstParams,     \* HumanID::m_mapEstParams: the covariance parameters read
    id_ret,             \* the last HumanID call: operation, result, configuration
    crashed             \* the process was terminated by undefined behaviour

ikVars == <<ik_kinDyn, m_nrDoFs, m_jointPositions, m_jointVelocities, m_basePose,
            m_baseVelocity, m_system, m_dtIntegration, m_OrientationTasks,
            m_GravityTasks, m_qpIK, ik_ret>>

idVars == <<id_kinDyn, m_humanMass, m_kinState, m_jointTorquesHelper,
            m_extWrenchesEstimator, m_wrenchSources, m_estimatedExtWrenches,
            m_mapEstParams, id_ret>>

\* The record every HumanIK call leaves in ik_ret.
IKRet(op, arg, ok, out) == [op |-> op, arg |-> arg, ok |-> ok, out |-> out]

\* States of the articulated model: base pose, joint positions, base twist,
\* joint velocities.
KinDynStates ==
    [basePose : Positions, s : {Vec(NrDoFs, p) : p \in Positions},
     baseVel : Velocities, sdot : {Vec(NrDoFs, v) : v \in Velocities}]

\* States the caller's model may hold when the estimators are constructed: at
\* rest, with any joint configuration.
InitialModelStates ==
    {[basePose |-> 0, s |-> Vec(NrDoFs, p), baseVel |-> 0, sdot |-> Vec(NrDoFs, 0)] :
        p \in {0, 1}}

\* nodeData::calibrationMatrix of a freshly created registry entry.
DefaultCalibration == RotId
\* HumanIK::calib_R_link, the fixed rotation TPoseCalibrationNode calibrates to.
calib_R_link == RotCyc
\* The setpoint of a task on which setSetPoint was never called.
NoSetPoint == [R |-> <<>>, omega |-> 0]

\* --------------------------------------------------- HumanIK configurations
\* The rotation_matrix of a task group that does not give one.
NoRotation == <<>>
\* One task group of the configuration: its name, its type, its node number, its
\* rotation_matrix (NoRotation when the key is missing) and the first step of its
\* initialization that fails ("none" when all succeed).
TaskDefects == {"none", "noGroup", "noType", "badType", "noNode",
                "weightProvider", "setKinDyn", "initialize", "addTask"}

\* A HumanIK configuration as initialize reads it: whether the handler is alive,
\* whether "tasks" and the IK group exist, the outcome of the QP solver's
\* initialize, of reading robot_velocity_variable_name and of finalize, and the
\* declared task groups.
IKConfig(handler, hasTasks, ikGroup, qpInitOk, varNameOk, finalizeOk, tasks) ==
    [handler |-> handler, hasTasks |-> hasTasks, ikGroup |-> ikGroup,
     qpInitOk |-> qpInitOk, varNameOk |-> varNameOk, finalizeOk |-> finalizeOk,
     tasks |-> tasks]

\* --------------------------------------------------------- HumanIK::initialize
\* Lines 98-119: the registry entry of an SO3Task group. operator[] creates the
\* entry when the node is new and keeps the calibration matrix of an existing
\* one; the task object is replaced, IMU_R_link is read or set to identity.
OrientationEntry(ot, t) ==
    [calibrationMatrix |-> IF t.node \in DOMAIN ot
                           THEN ot[t.node].calibrationMatrix
                           ELSE DefaultCalibration,
     IMU_R_link |-> IF t.rot = NoRotation THEN RotId ELSE t.rot,
     setPoint |-> NoSetPoint]

\* f with key k bound to v (std::unordered_map::operator[] followed by a write).
MapPut(f, k, v) == [x \in DOMAIN f \cup {k} |-> IF x = k THEN v ELSE f[x]]

\* Lines 87-130: one SO3Task group. st is [ok, ot, gt, qp]; the result adds
\* "returned", true when initialize returns false inside this group.
InitSO3Task(st, t) ==
    IF t.defect = "noNode" THEN st @@ [returned |-> TRUE]
    ELSE LET ot1 == MapPut(st.ot, t.node, OrientationEntry(st.ot, t))
             ok1 == st.ok /\ t.defect # "setKinDyn"
             ok2 == ok1 /\ t.defect # "initialize"
             ok3 == ok2 /\ t.defect # "addTask"
         IN  [ok |-> ok3, ot |-> ot1, gt |-> st.gt,
              qp |-> IF ok3 THEN st.qp \cup {t.name} ELSE st.qp,
              returned |-> ~ok3]

\* Lines 284-319 and 133-139: one GravityTask group. initializeGravityTask keeps
\* its own ok flag, so the caller's ok is not changed by it.
initializeGravityTask(st, t) ==
    IF t.defect = "noNode" THEN st @@ [returned |-> TRUE]
    ELSE LET gt1 == st.gt \cup {t.node}
             ok3 == t.defect \notin {"weightProvider", "setKinDyn", "initialize",
                                     "addTask"}
         IN  [ok |-> st.ok, ot |-> st.ot, gt |-> gt1,
              qp |-> IF ok3 THEN st.qp \cup {t.name} ELSE st.qp,
              returned |-> ~ok3]

\* Lines 69-145: the loop over the declared task groups, from position i on.
RECURSIVE InitTasks(_, _, _)
InitTasks(tasks, i, st) ==
    IF i > Len(tasks) THEN st @@ [returned |-> FALSE]
    ELSE LET t == tasks[i]
             r == CASE t.defect \in {"noGroup", "noType", "badType"} ->
                           st @@ [returned |-> TRUE]
                    [] t.type = "SO3Task" -> InitSO3Task(st, t)
                    [] OTHER -> initializeGravityTask(st, t)
         IN  IF r.returned THEN r
             ELSE InitTasks(tasks, i + 1, [ok |-> r.ok, ot |-> r.ot, gt |-> r.gt,
                                           qp |-> r.qp])

\* Lines 11-150: HumanIK::initialize(handler, kinDyn). kin is the model handle
\* ("null", "invalid" or "model"), cfg the configuration. Line 66 dereferences
\* the IK group without a null check: with the group absent the behaviour is
\* undefined, and ub names the outcome the build produces, "crash" (the process
\* is terminated) or "continue" (the read is a no-op and execution goes on).
IKInitialize(kin, cfg, ub) ==
    /\ ~crashed
    /\ IF kin # "model"
       THEN /\ ik_ret' = IKRet("initialize", 0, FALSE, <<>>)
            /\ UNCHANGED <<ik_kinDyn, m_nrDoFs, m_jointPositions, m_jointVelocities,
                           m_basePose, m_baseVelocity, m_system, m_dtIntegration,
                           m_OrientationTasks, m_GravityTasks, m_qpIK, crashed>>
       ELSE \* lines 25-47
            /\ ik_kinDyn' = "model"
            /\ m_jointPositions' = kd.s
            /\ m_jointVelocities' = kd.sdot
            /\ m_basePose' = kd.basePose
            /\ m_baseVelocity' = kd.baseVel
            /\ m_system' = [state |-> [basePose |-> kd.basePose, s |-> kd.s],
                            dt |-> 0]
            /\ m_nrDoFs' = NrDoFs
            /\ UNCHANGED m_dtIntegration
            /\ IF cfg.handler = "expired" \/ ~cfg.hasTasks
               THEN \* lines 49-61
                    /\ ik_ret' = IKRet("initialize", 0, FALSE, <<>>)
                    /\ UNCHANGED <<m_OrientationTasks, m_GravityTasks, m_qpIK,
                                   crashed>>
               ELSE IF ~cfg.ikGroup /\ ub = "crash"
               THEN \* line 66 on a null group
                    /\ crashed' = TRUE
                    /\ m_qpIK' = [m_qpIK EXCEPT !.initialized = FALSE]
                    /\ UNCHANGED <<m_OrientationTasks, m_GravityTasks, ik_ret>>
               ELSE \* lines 63-149
                    LET ok0 == cfg.ikGroup /\ cfg.qpInitOk
                        r == InitTasks(cfg.tasks, 1,
                                       [ok |-> ok0, ot |-> m_OrientationTasks,
                                        gt |-> m_GravityTasks, qp |-> m_qpIK.tasks])
                    IN  /\ m_OrientationTasks' = r.ot
                        /\ m_GravityTasks' = r.gt
                        /\ m_qpIK' = [tasks |-> r.qp, initialized |-> ok0,
                                      finalized |-> IF r.returned
                                                    THEN m_qpIK.finalized
                                                    ELSE cfg.finalizeOk]
                        /\ ik_ret' = IKRet("initialize", 0,
                                           IF r.returned THEN FALSE ELSE r.ok, <<>>)
                        /\ UNCHANGED crashed
    /\ UNCHANGED <<kd, idVars>>

\* ------------------------------------------------------------ HumanIK::setDt
\* Lines 152-158, on an instance whose integrator exists.
IKSetDt(dt) ==
    /\ ~crashed
    /\ ik_kinDyn = "model"
    /\ m_dtIntegration' = dt
    /\ m_system' = [m_system EXCEPT !.dt = dt]
    /\ ik_ret' = IKRet("setDt", dt, TRUE, <<>>)
    /\ UNCHANGED <<kd, ik_kinDyn, m_nrDoFs, m_jointPositions, m_jointVelocities,
                   m_basePose, m_baseVelocity, m_OrientationTasks, m_GravityTasks,
                   m_qpIK, crashed, idVars>>

\* ---------------------------------------------------------- HumanIK::advance
\* ForwardEuler on the position manifold: one explicit step of length dt.
Integrate(x, v, dt) == (x + v * dt) % Cardinality(Positions)

\* Line 213: the control input handed to the integrator. newBase and newJoints
\* are the output of this cycle's QP solve (already stored at lines 210-211),
\* oldBase and oldJoints the velocities cached by the previous cycle.
ControlInputAsPrevious(newBase, newJoints, oldBase, oldJoints) ==
    [base |-> oldBase, joints |-> oldJoints]

ControlInput(newBase, newJoints, oldBase, oldJoints) ==
    [base |-> newBase, joints |-> newJoints]

\* Line 202: the setpoints the tasks hold when m_qpIK.advance() evaluates them.
QPSetPointsAsCleared(ot) == [n \in DOMAIN ot |-> NoSetPoint]

QPSetPoints(ot) == [n \in DOMAIN ot |-> ot[n].setPoint]

\* Line 225: m_kinDyn->setRobotState(m_basePose, jointPosition, m_baseVelocity,
\* m_jointVelocities, m_gravity).
setRobotStateAsSkipped(basePose, s, baseVel, sdot) == kd

setRobotState(basePose, s, baseVel, sdot) ==
    [basePose |-> basePose, s |-> s, baseVel |-> baseVel, sdot |-> sdot]

\* Lines 199-228. jv and bv are the joint and base velocity of the QP output;
\* qpOk, validOk, ctrlOk and intOk the outcomes of m_qpIK.advance(),
\* isOutputValid(), setControlInput() and integrate(). The QP solver advances
\* only once initialized and finalized, the integrator only with a step set.
\* ik_ret.out keeps the setpoints the QP solve evaluated.
IKAdvance(jv, bv, qpOk, validOk, ctrlOk, intOk) ==
    /\ ~crashed
    /\ IF ~(m_qpIK.initialized /\ m_qpIK.finalized /\ qpOk /\ validOk)
       THEN /\ ik_ret' = IKRet("advance", 0, FALSE, <<>>)
            /\ UNCHANGED <<kd, m_jointPositions, m_jointVelocities, m_basePose,
                           m_baseVelocity, m_system>>
       ELSE LET u == ControlInput(bv, Vec(NrDoFs, jv), m_baseVelocity,
                                  m_jointVelocities)
                sol == [basePose |-> Integrate(m_system.state.basePose, u.base,
                                               m_dtIntegration),
                        s |-> [i \in 1..NrDoFs |->
                                  Integrate(m_system.state.s[i], u.joints[i],
                                            m_dtIntegration)]]
            IN  /\ m_jointVelocities' = Vec(NrDoFs, jv)
                /\ m_baseVelocity' = bv
                /\ IF ~(ctrlOk /\ intOk /\ m_system.dt > 0)
                   THEN /\ ik_ret' = IKRet("advance", 0, FALSE,
                                           QPSetPoints(m_OrientationTasks))
                        /\ UNCHANGED <<kd, m_jointPositions, m_basePose, m_system>>
                   ELSE /\ m_system' = [m_system EXCEPT !.state = sol]
                        /\ m_basePose' = sol.basePose
                        /\ m_jointPositions' = sol.s
                        /\ kd' = setRobotState(sol.basePose, sol.s, bv,
                                               Vec(NrDoFs, jv))
                        /\ ik_ret' = IKRet("advance", 0, TRUE,
                                           QPSetPoints(m_OrientationTasks))
    /\ UNCHANGED <<ik_kinDyn, m_nrDoFs, m_dtIntegration, m_OrientationTasks,
                   m_GravityTasks, m_qpIK, crashed, idVars>>

\* ---------------------------------------------------------------- accessors
\* Lines 232 and 245: the size check of the caller's buffer.
BufferFitsAsAtMost(n, cached) == n <= Len(cached)

BufferFits(n, cached) == n = Len(cached)

\* Lines 230-254: getJointPositions / getJointVelocities on a buffer of length
\* n; buf is the buffer's content before the call, out its content after it.
IKGetter(op, cached, n) ==
    /\ ~crashed
    /\ LET buf == Vec(n, 0)
           ok == BufferFits(n, cached)
       IN  ik_ret' = IKRet(op, n, ok,
                           IF ok THEN [i \in 1..n |-> cached[i]] ELSE buf)
    /\ UNCHANGED <<kd, ik_kinDyn, m_nrDoFs, m_jointPositions, m_jointVelocities,
                   m_basePose, m_baseVelocity, m_system, m_dtIntegration,
                   m_OrientationTasks, m_GravityTasks, m_qpIK, crashed, idVars>>

getJointPositions(n) == IKGetter("getJointPositions", m_jointPositions, n)
getJointVelocities(n) == IKGetter("getJointVelocities", m_jointVelocities, n)

\* Binding lines 75-85: the Python accessors allocate a buffer of getDoFsNumber()
\* entries (lines 165-168) and return the pair (ok, buffer).
PyGetJointPositions == IKGetter("py_getJointPositions", m_jointPositions, m_nrDoFs)
PyGetJointVelocities == IKGetter("py_getJointVelocities", m_jointVelocities, m_nrDoFs)

\* -------------------------------------------------------- per-node operations
\* Lines 175 and 188: the lookup that guards every per-node operation.
NodeConfiguredAsAlways(ot, node) == TRUE

NodeConfigured(ot, node) == node \in DOMAIN ot

\* m_OrientationTasks[node] (lines 180-182, 193-194): std::unordered_map's
\* operator[] yields the entry, default-constructing it when the key is absent.
NodeEntry(ot, node) ==
    IF node \in DOMAIN ot THEN ot[node]
    ELSE [calibrationMatrix |-> DefaultCalibration, IMU_R_link |-> RotId,
          setPoint |-> NoSetPoint]

\* Lines 180-181: the rotation handed to the task as its setpoint.
CalibratedSetPointAsUncalibrated(e, I_R_IMU) == RotMul(I_R_IMU, e.IMU_R_link)

CalibratedSetPoint(e, I_R_IMU) ==
    RotMul(RotMul(e.calibrationMatrix, I_R_IMU), e.IMU_R_link)

\* Lines 170-184: HumanIK::setNodeSetPoint(node, I_R_IMU, I_omega_IMU).
setNodeSetPoint(node, I_R_IMU, I_omega_IMU) ==
    /\ ~crashed
    /\ IF ~NodeConfigured(m_OrientationTasks, node)
       THEN /\ ik_ret' = IKRet("setNodeSetPoint", node, FALSE, <<>>)
            /\ UNCHANGED m_OrientationTasks
       ELSE LET e == NodeEntry(m_OrientationTasks, node)
                I_R_link == CalibratedSetPoint(e, I_R_IMU)
            IN  /\ m_OrientationTasks' =
                       MapPut(m_OrientationTasks, node,
                              [e EXCEPT !.setPoint = [R |-> I_R_link,
                                                      omega |-> I_omega_IMU]])
                /\ ik_ret' = IKRet("setNodeSetPoint", node, TRUE, I_R_IMU)
    /\ UNCHANGED <<kd, ik_kinDyn, m_nrDoFs, m_jointPositions, m_jointVelocities,
                   m_basePose, m_baseVelocity, m_system, m_dtIntegration,
                   m_GravityTasks, m_qpIK, crashed, idVars>>

\* Lines 193-194: the calibration matrix a T-pose calibration stores.
TPoseCalibrationAsRelative(e, I_R_IMU) ==
    RotMul(RotMul(calib_R_link, RotInv(RotMul(I_R_IMU, e.IMU_R_link))),
           e.calibrationMatrix)

TPoseCalibration(e, I_R_IMU) ==
    RotMul(calib_R_link, RotInv(RotMul(I_R_IMU, e.IMU_R_link)))

\* Lines 186-197: HumanIK::TPoseCalibrationNode(node, I_R_IMU).
TPoseCalibrationNode(node, I_R_IMU) ==
    /\ ~crashed
    /\ IF ~NodeConfigured(m_OrientationTasks, node)
       THEN /\ ik_ret' = IKRet("TPoseCalibrationNode", node, FALSE, <<>>)
            /\ UNCHANGED m_OrientationTasks
       ELSE LET e == NodeEntry(m_OrientationTasks, node)
            IN  /\ m_OrientationTasks' =
                       MapPut(m_OrientationTasks, node,
                              [e EXCEPT !.calibrationMatrix =
                                  TPoseCalibration(e, I_R_IMU)])
                /\ ik_ret' = IKRet("TPoseCalibrationNode", node, TRUE, I_R_IMU)
    /\ UNCHANGED <<kd, ik_kinDyn, m_nrDoFs, m_jointPositions, m_jointVelocities,
                   m_basePose, m_baseVelocity, m_system, m_dtIntegration,
                   m_GravityTasks, m_qpIK, crashed, idVars>>

\* HumanIK::clearCalibrationMatrices(): every node's calibration matrix goes
\* back to the identity.
clearCalibrationMatrices ==
    /\ ~crashed
    /\ m_OrientationTasks' =
           [n \in DOMAIN m_OrientationTasks |->
               [m_OrientationTasks[n] EXCEPT !.calibrationMatrix = DefaultCalibration]]
    /\ ik_ret' = IKRet("clearCalibrationMatrices", 0, TRUE, <<>>)
    /\ UNCHANGED <<kd, ik_kinDyn, m_nrDoFs, m_jointPositions, m_jointVelocities,
                   m_basePose, m_baseVelocity, m_system, m_dtIntegration,
                   m_GravityTasks, m_qpIK, crashed, idVars>>

\* ================================================================ HumanID
\* Links of the articulated model; every link is a frame a wrench source may
\* name as its output frame.
Links == {1, 2}
\* Wrench values (one integer stands for the six components).
Wrenches == {0, 1}
\* Joint torque values.
Torques == {0, 1}
\* Most wrench sources the instance may accumulate over its initialize calls.
MaxSources == 3

\* The sensor types initializeJointTorquesHelper iterates over (line 284).
mapBerdySensorType == <<"ACCELEROMETER_SENSOR", "GYROSCOPE_SENSOR">>
\* m_kinDyn->getRobotModel().sensors(): the sensors attached to the model.
ModelSensors ==
    {[type |-> "ACCELEROMETER_SENSOR", id |-> "acc1"],
     [type |-> "ACCELEROMETER_SENSOR", id |-> "acc2"],
     [type |-> "GYROSCOPE_SENSOR", id |-> "gyro1"]}

\* iDynTree::VectorDynSize::resize(n): a vector that already has n entries is
\* left alone; otherwise the old entries are kept and the new ones hold
\* whatever the allocation holds (g).
Resize(v, n, g) ==
    IF Len(v) = n THEN v ELSE [i \in 1..n |-> IF i <= Len(v) THEN v[i] ELSE g]

\* ------------------------------------------------ HumanID configurations
\* SENSOR_REMOVAL entries: no entry for the type, "*", or a sensor name.
NoEntry == ""
\* The steps of HumanID::initialize that fail on a bad configuration or on a
\* failing library call, in the order the code reaches them.
IDFailPoints ==
    {"none", "humanMass", "noJointTorquesGroup", "noSensorRemoval", "jtBerdyInit",
     "jtSolverInit", "noExtWrenchesGroup", "noWrenchSources", "modelLoad",
     "loadRobotModel", "noModelPath", "mu_dyn_variables", "cov_dyn_variables",
     "specificElements", "elementCovariance", "cov_measurements_RCM_SENSOR",
     "default_cov_measurements", "checkConsistency", "ewBerdyInit",
     "ewSolverInit", "ewSolverInvalid"}

\* One wrench-source group: its output frame, its type ("fixed" or "dummy"),
\* the static transform of a fixed source, the values of a dummy one, and what
\* is wrong with the group ("none" when it is well formed).
SourceDefects == {"none", "noGroup", "noOutputFrame", "noType", "badType",
                  "noPosition", "noOrientation", "noValues"}
SourceGroup(frame, type, transform, values, defect) ==
    [outputFrame |-> frame, type |-> type, transform |-> transform,
     values |-> values, defect |-> defect]

\* A covariance vector of the configuration: its length n and the value v of
\* its entries.
CovVector(n, v) == [n |-> n, v |-> v]
\* The std::vector<double> operator[] creates in specificMeasurementsCovariance,
\* also what a vector the configuration does not give reads as.
EmptyCovVector == CovVector(0, 0)
\* The covariance parameters of the EXTERNAL_WRENCHES group: the vectors of
\* the elements listed in specificElements (a map from sensor ids to vectors),
\* cov_measurements_RCM_SENSOR and default_cov_measurements.
Covariance(specific, rcm, default) ==
    [specific |-> specific, rcm |-> rcm, default |-> default]
\* No specific element, and unit covariances.
BaseCovariance == Covariance(<<>>, CovVector(6, 1), 1)

\* Joint names. The joints of the caller's model are named 1..NrDoFs, in index
\* order. The model file named by modelPath has NrDoFs joints as well; the
\* sequence gives their names in index order.
MatchedJoints == [i \in 1..NrDoFs |-> i]
\* A model file whose last joint has a name the caller's model does not have.
PartlyMatchedJoints == [i \in 1..NrDoFs |-> IF i = NrDoFs THEN NrDoFs + 1 ELSE i]

\* A HumanID configuration as initialize reads it.
IDConfig(handler, failAt, mass, removal, removeAllOk, sources) ==
    [handler |-> handler, failAt |-> failAt, humanMass |-> mass,
     removal |-> removal, removeAllOk |-> removeAllOk, sources |-> sources,
     covariance |-> BaseCovariance, modelJoints |-> MatchedJoints]
\* The configuration cfg with a modelPath whose model has the joints names.
WithModelJoints(cfg, names) == [cfg EXCEPT !.modelJoints = names]
\* The configuration cfg with the covariance parameters cov.
WithCovariance(cfg, cov) == [cfg EXCEPT !.covariance = cov]

\* ------------------------------------------- initializeJointTorquesHelper
\* iDynTree::SensorsList::removeSensor(type, name): false when the list holds no
\* such sensor.
RemoveSensor(list, type, name) ==
    LET hit == {x \in list : x.type = type /\ x.id = name}
    IN  [ok |-> hit # {}, list |-> list \ hit]

\* Lines 284-310: the removal loop over the local copy sensorList, from type
\* number i on. The result says whether the helper returned false in the loop
\* and gives the local list as the loop leaves it.
RECURSIVE RemovalLoop(_, _, _, _)
RemovalLoop(list, removal, removeAllOk, i) ==
    IF i > Len(mapBerdySensorType) THEN [returned |-> FALSE, list |-> list]
    ELSE LET type == mapBerdySensorType[i]
             entry == removal[type]
         IN  IF entry = NoEntry
             THEN RemovalLoop(list, removal, removeAllOk, i + 1)
             ELSE IF entry = "*"
             THEN IF ~removeAllOk
                  THEN [returned |-> TRUE, list |-> list]
                  ELSE RemovalLoop({x \in list : x.type # type}, removal,
                                   removeAllOk, i + 1)
             ELSE \* lines 301-307: a failed removeSensor is logged, nothing else
                  RemovalLoop(RemoveSensor(list, type, entry).list, removal,
                              removeAllOk, i + 1)

\* Line 313: the sensors BerdyHelper::init builds its ordering on. It is handed
\* the model (whose sensor list the loop above never touched), not sensorList.
BerdyInitSensors(modelSensors, sensorList) == modelSensors

\* BerdyHelper::getSensorsOrdering() of the joint-torque helper: the sensors of
\* the list it was built on, one net external wrench sensor per link and one
\* acceleration sensor per joint (lines 269-271).
JTSensorsOrdering(sensors) ==
    sensors
    \cup {[type |-> "NET_EXT_WRENCH_SENSOR", id |-> l] : l \in Links}
    \cup {[type |-> "DOF_ACCELERATION_SENSOR", id |-> j] : j \in 1..NrDoFs}

\* BerdyHelper::getSensorsOrdering() of the external-wrench helper: one net
\* external wrench sensor per link and the RCM sensor (lines 533-540).
EWSensorsOrdering ==
    {[type |-> "NET_EXT_WRENCH_SENSOR", id |-> l] : l \in Links}
    \cup {[type |-> "RCM_SENSOR", id |-> 0]}

\* A measurement vector resized to the layout of an ordering: one block per
\* sensor; a vector that already has this layout is left alone, otherwise its
\* blocks hold whatever the allocation holds (g).
ResizeMeasurement(m, ordering, g) ==
    IF DOMAIN m = ordering THEN m ELSE [x \in ordering |-> g]

\* The unknown (dynamic-variable) vectors: a net external wrench per link for
\* both estimators, and a torque per joint for the joint-torque estimator.
EWDynamicVariables == {[type |-> "NET_EXT_WRENCH", id |-> l] : l \in Links}
JTDynamicVariables ==
    EWDynamicVariables \cup {[type |-> "DOF_TORQUE", id |-> j] : j \in 1..NrDoFs}

\* The HumanID members gathered in one record, with the status of the running
\* call: "running", "false" (returned false) or "crash".
IDState ==
    [kinDyn |-> id_kinDyn, humanMass |-> m_humanMass, kinState |-> m_kinState,
     jt |-> m_jointTorquesHelper, ew |-> m_extWrenchesEstimator,
     wrenchSources |-> m_wrenchSources,
     estimatedExtWrenches |-> m_estimatedExtWrenches,
     mapEstParams |-> m_mapEstParams, status |-> "running", outOfBounds |-> FALSE]

Fail(st) == [st EXCEPT !.status = "false"]

\* Lines 260-336: initializeJointTorquesHelper.
initializeJointTorquesHelper(st, cfg, g) ==
    IF cfg.failAt = "noSensorRemoval" THEN Fail(st)
    ELSE LET loop == RemovalLoop(ModelSensors, cfg.removal, cfg.removeAllOk, 1)
         IN  IF loop.returned \/ cfg.failAt = "jtBerdyInit" THEN Fail(st)
             ELSE LET jt1 == [st.jt EXCEPT
                                 !.sensors = JTSensorsOrdering(
                                     BerdyInitSensors(ModelSensors, loop.list)),
                                 !.estimatedDynamicVariables =
                                     ResizeMeasurement(@, JTDynamicVariables, g),
                                 !.solver = "created"]
                  IN  IF cfg.failAt = "jtSolverInit"
                      THEN Fail([st EXCEPT !.jt = jt1])
                      ELSE [st EXCEPT !.jt = [jt1 EXCEPT !.solver = "valid"]]

\* Lines 351-432: the loop over the wrenchSources list, from position i on. A
\* malformed group makes the helper return false; the sources pushed before it
\* stay in m_wrenchSources.
RECURSIVE PushWrenchSources(_, _, _)
PushWrenchSources(ws, groups, i) ==
    IF i > Len(groups) THEN [returned |-> FALSE, ws |-> ws]
    ELSE LET grp == groups[i]
             bad == \/ grp.defect \in {"noGroup", "noOutputFrame", "noType", "badType"}
                    \/ grp.type = "fixed" /\ grp.defect \in {"noPosition", "noOrientation"}
                    \/ grp.type = "dummy" /\ grp.defect = "noValues"
             data == [outputFrame |-> grp.outputFrame,
                      type |-> IF grp.type = "fixed" THEN "Fixed" ELSE "Dummy",
                      outputFrameTransform |-> IF grp.type = "fixed"
                                               THEN grp.transform ELSE 0,
                      wrench |-> IF grp.type = "dummy" THEN grp.values ELSE 0]
         IN  IF bad THEN [returned |-> TRUE, ws |-> ws]
             ELSE PushWrenchSources(Append(ws, data), groups, i + 1)

\* Line 433: std::vector::resize keeps the entries it has; a new entry is a
\* default-constructed iDynTree::Wrench, whose content is not set (g).
ResizeWrenches(v, n, g) ==
    [i \in 1..n |-> IF i <= Len(v) THEN v[i] ELSE g]

\* Entries of a sensor's block of the measurement vector and of the covariance
\* diagonal (the loops of lines 575-590 and 598-606).
BlockSize == 6

\* Line 512: specificMeasurementsCovariance[element] = covariance, for every
\* listed element; the entries the member map already holds stay.
MergeSpecific(old, new) ==
    [k \in DOMAIN old \cup DOMAIN new |-> IF k \in DOMAIN new THEN new[k] ELSE old[k]]

\* Lines 582-583 and 603-606: the first BlockSize entries of a covariance
\* vector. Nothing checks the vector's length: on a shorter one the reads run
\* past its end and yield what the memory there holds (g).
CovBlock(vec, g) == IF vec.n >= BlockSize THEN vec.v ELSE g

\* Lines 569-612: the diagonal of the measurement covariance, one block per
\* sensor of the ordering: for a net external wrench sensor the vector the
\* member map holds under the sensor's id when it holds one, the default
\* otherwise; for the RCM sensor the vector held under "RCM_SENSOR".

MeasurementsCovariance(mp, sensors, g) ==
    [x \in sensors |->
        IF x.type = "RCM_SENSOR" THEN CovBlock(mp.rcm, g)
        ELSE IF x.id \in DOMAIN mp.specific THEN CovBlock(mp.specific[x.id], g)
        ELSE mp.default]

\* Whether building the diagonal reads past the end of a covariance vector.
ReadsOutOfBounds(mp, sensors) ==
    \/ mp.rcm.n < BlockSize
    \/ \E x \in sensors : /\ x.type = "NET_EXT_WRENCH_SENSOR"
                          /\ x.id \in DOMAIN mp.specific
                          /\ mp.specific[x.id].n < BlockSize

\* The world gravity of the caller's model, as getRobotState reports it
\* (line 96).
Gravity == 1
\* The state of a KinDynComputations object that holds no model.
NoModelState ==
    [basePose |-> 0, s |-> <<>>, baseVel |-> 0, sdot |-> <<>>, gravity |-> 0]
\* Line 447: the state of a KinDynComputations object after loadRobotModel.
LoadedModelState ==
    [basePose |-> 0, s |-> Vec(NrDoFs, 0), baseVel |-> 0, sdot |-> Vec(NrDoFs, 0),
     gravity |-> 0]
\* Line 96: what getRobotState reads from the caller's model.
getRobotState ==
    [basePose |-> kd.basePose, s |-> kd.s, baseVel |-> kd.baseVel,
     sdot |-> kd.sdot, gravity |-> Gravity]

\* The state of the model m_extWrenchesEstimator.kinDyn points to: after line
\* 468 the pointer is m_kinDyn itself.
SecondaryModelState(ew) ==
    IF ew.kinDyn = "primary" THEN getRobotState ELSE ew.modelState

\* Lines 338-654: initializeExtWrenchesHelper.
initializeExtWrenchesHelper(st, cfg, g) ==
    IF cfg.failAt = "noWrenchSources" THEN Fail(st)
    ELSE
    LET loop == PushWrenchSources(st.wrenchSources, cfg.sources, 1)
        st1 == [st EXCEPT !.wrenchSources = loop.ws]
        st2 == [st1 EXCEPT !.estimatedExtWrenches =
                               ResizeWrenches(@, Len(loop.ws), g)]
        \* lines 446-461: the secondary model
        ew3 == [st.ew EXCEPT !.kinDyn = "secondary", !.useFullModel = TRUE,
                             !.jointNames = cfg.modelJoints,
                             !.modelState = LoadedModelState,
                             !.jointPositions = Vec(NrDoFs, 0),
                             !.jointVelocities = Vec(NrDoFs, 0)]
        \* lines 471-476
        ew4 == [ew3 EXCEPT !.jointsPositionArray = Vec(NrDoFs, 0),
                           !.jointsVelocityArray = Vec(NrDoFs, 0)]
        \* lines 550-559
        ew5 == [ew4 EXCEPT !.sensors = EWSensorsOrdering, !.solver = "created"]
        \* lines 502-531: the covariance parameters go into m_mapEstParams
        mp1 == [st.mapEstParams EXCEPT
                   !.specific = MergeSpecific(@, cfg.covariance.specific)]
        mp2 == [mp1 EXCEPT !.rcm = cfg.covariance.rcm]
        mp3 == [mp2 EXCEPT !.default = cfg.covariance.default]
        \* lines 569-619
        ew6 == [ew5 EXCEPT !.measurementsCovariance =
                               MeasurementsCovariance(mp3, EWSensorsOrdering, g)]
        st6 == [st2 EXCEPT !.ew = ew6, !.mapEstParams = mp3,
                           !.outOfBounds = ReadsOutOfBounds(mp3, EWSensorsOrdering)]
    IN  IF loop.returned THEN Fail(st1)
        ELSE IF cfg.failAt = "modelLoad" THEN Fail(st2)
        ELSE IF cfg.failAt = "loadRobotModel"
        THEN Fail([st2 EXCEPT !.ew.kinDyn = "invalid",
                              !.ew.jointNames = <<>>,
                              !.ew.modelState = NoModelState])
        ELSE IF cfg.failAt = "noModelPath"
        THEN Fail([st2 EXCEPT !.ew.kinDyn = "primary", !.ew.useFullModel = FALSE,
                              !.ew.jointNames = MatchedJoints,
                              !.ew.modelState = getRobotState])
        ELSE IF cfg.failAt \in {"mu_dyn_variables", "cov_dyn_variables",
                                "specificElements", "elementCovariance"}
        THEN Fail([st2 EXCEPT !.ew = ew4])
        ELSE IF cfg.failAt = "cov_measurements_RCM_SENSOR"
        THEN Fail([st2 EXCEPT !.ew = ew4, !.mapEstParams = mp1])
        ELSE IF cfg.failAt = "default_cov_measurements"
        THEN Fail([st2 EXCEPT !.ew = ew4, !.mapEstParams = mp2])
        ELSE IF cfg.failAt \in {"checkConsistency", "ewBerdyInit"}
        THEN Fail([st2 EXCEPT !.ew = ew4, !.mapEstParams = mp3])
        ELSE IF cfg.failAt = "ewSolverInit"
        THEN Fail([st2 EXCEPT !.ew = ew5, !.mapEstParams = mp3])
        ELSE IF cfg.failAt = "ewSolverInvalid"
        THEN Fail(st6)
        ELSE [st6 EXCEPT !.ew.solver = "valid"]

\* The record every HumanID call leaves in id_ret.
IDRet(op, arg, ok) == [op |-> op, arg |-> arg, ok |-> ok]

\* Writes the members of st back and records the call's result.
IDCommit(st, op, arg) ==
    /\ id_kinDyn' = st.kinDyn
    /\ m_humanMass' = st.humanMass
    /\ m_kinState' = st.kinState
    /\ m_jointTorquesHelper' = st.jt
    /\ m_extWrenchesEstimator' = st.ew
    /\ m_wrenchSources' = st.wrenchSources
    /\ m_estimatedExtWrenches' = st.estimatedExtWrenches
    /\ m_mapEstParams' = st.mapEstParams
    /\ id_ret' = IDRet(op, arg, st.status = "running")

\* Lines 29-38: the model handle is kept, the kinematic state zeroed and the
\* joint-torque vector resized.
IDBindModel(st, g) ==
    [st EXCEPT !.kinDyn = "model",
               !.kinState = [jointsPosition |-> Vec(NrDoFs, 0),
                             jointsVelocity |-> Vec(NrDoFs, 0),
                             baseAngularVelocity |-> 0],
               !.jt.estimatedJointTorques = Resize(@, NrDoFs, g)]

\* Lines 68-76: the estimate and measurement vectors take their sizes; only the
\* external-wrench measurement is zeroed.
IDSizeVectors(st, g) ==
    [st EXCEPT !.ew.estimatedDynamicVariables =
                    ResizeMeasurement(@, EWDynamicVariables, g),
               !.ew.measurement = [x \in st.ew.sensors |-> 0],
               !.jt.estimatedDynamicVariables =
                    ResizeMeasurement(@, JTDynamicVariables, g),
               !.jt.measurement = ResizeMeasurement(@, st.jt.sensors, g)]

\* Lines 7-81, after the handler was locked: the members as initialize leaves
\* them, with status "false" when it returned false.
IDInitializeResult(st, kin, cfg, g) ==
    IF cfg.failAt = "humanMass" THEN Fail(st)
    ELSE LET st1 == [st EXCEPT !.humanMass = cfg.humanMass]
             st2 == IDBindModel(st1, g)
             st3 == initializeJointTorquesHelper(st2, cfg, g)
             st4 == initializeExtWrenchesHelper(st3, cfg, g)
         IN  IF kin # "model" THEN Fail(st1)
             ELSE IF cfg.failAt = "noJointTorquesGroup" THEN Fail(st2)
             ELSE IF st3.status # "running" THEN st3
             ELSE IF cfg.failAt = "noExtWrenchesGroup" THEN Fail(st3)
             ELSE IF st4.status # "running" THEN st4
             ELSE IDSizeVectors(st4, g)

\* What id_ret keeps of the configuration of an initialize call: its
\* SENSOR_REMOVAL group, its wrenchSources list and its covariance parameters.
IDInitArg(cfg) ==
    [removal |-> cfg.removal, sources |-> cfg.sources, covariance |-> cfg.covariance]

\* Lines 7-81: HumanID::initialize(handler, kinDyn). Line 15 dereferences the
\* locked handler without a null check: with an expired handler the behaviour is
\* undefined, and ub names the outcome the build produces, "crash" (the process
\* is terminated) or "continue" (the read fails and initialize returns false).
\* The same holds for a read past the end of a covariance vector (lines 583 and
\* 606), which under "continue" yields g. g is the content of freshly allocated
\* storage.
IDInitialize(kin, cfg, ub, g) ==
    /\ ~crashed
    /\ Len(m_wrenchSources) + Len(cfg.sources) <= MaxSources
    /\ LET res == IF cfg.handler = "expired" THEN Fail(IDState)
                  ELSE IDInitializeResult(IDState, kin, cfg, g)
           undefined == cfg.handler = "expired" \/ res.outOfBounds
       IN  IF undefined /\ ub = "crash"
           THEN /\ crashed' = TRUE
                /\ UNCHANGED idVars
           ELSE /\ IDCommit(res, "initialize", IDInitArg(cfg))
                /\ UNCHANGED crashed
    /\ UNCHANGED <<kd, ikVars>>

\* ------------------------------------------------------------ HumanID::solve
\* Lines 195-203: m_estimatedExtWrenches[i] takes the estimate of the link the
\* i-th source names. m_wrenchSources may be longer than the vector (an
\* initialize that returned false inside its source loop never reached the
\* resize): a write past the end lands outside the vector.
ExtractExtWrenches(old, sources, linkExtWrenches) ==
    [i \in 1..Len(old) |->
        IF i <= Len(sources)
        THEN linkExtWrenches[[type |-> "NET_EXT_WRENCH", id |-> sources[i].outputFrame]]
        ELSE old[i]]

\* Lines 161-248: HumanID::solve(), on an instance whose two solvers were
\* initialized. est1 is the posterior of the external-wrench estimator, est2
\* that of the joint-torque estimator; failAt names the first library call that fails ("none" when all succeed).
\* Lines 236-239: extractJointTorquesFromDynamicVariables, the torque of every
\* joint out of the posterior est.
ExtractJointTorquesAsFirst(est) == <<est[[type |-> "DOF_TORQUE", id |-> 1]]>>
ExtractJointTorques(est) ==
    [j \in 1..NrDoFs |-> est[[type |-> "DOF_TORQUE", id |-> j]]]

\* The measurement the joint-torque estimator is handed (line 223) is
\* m_jointTorquesHelper.measurement as it stands.
IDSolve(est1, est2, failAt, ub) ==
    /\ ~crashed
    /\ m_extWrenchesEstimator.solver = "valid"
    /\ m_jointTorquesHelper.solver = "valid"
    /\ LET \* lines 166-170
           ks == [jointsPosition |-> kd.s, jointsVelocity |-> kd.sdot,
                  baseAngularVelocity |-> kd.baseVel]
           overrun == Len(m_wrenchSources) > Len(m_estimatedExtWrenches)
           st0 == [IDState EXCEPT
                      !.kinState = ks,
                      !.ew.jointsPositionArray =
                          SecondaryModelState(m_extWrenchesEstimator).s,
                      !.ew.jointsVelocityArray =
                          SecondaryModelState(m_extWrenchesEstimator).sdot]
           \* lines 185-203
           st1 == [st0 EXCEPT
                      !.ew.estimatedDynamicVariables = est1,
                      !.estimatedExtWrenches =
                          ExtractExtWrenches(@, m_wrenchSources, est1)]
           \* lines 233-239
           st2 == [st1 EXCEPT !.jt.estimatedDynamicVariables = est2]
           st3 == [st2 EXCEPT !.jt.estimatedJointTorques = ExtractJointTorques(est2)]
       IN  IF failAt = "ewEstimate"
           THEN IDCommit(Fail(st0), "solve", <<>>) /\ UNCHANGED crashed
           ELSE IF overrun /\ ub = "crash"
           THEN crashed' = TRUE /\ UNCHANGED idVars
           ELSE /\ UNCHANGED crashed
                /\ IF failAt \in {"jtKinematics", "jtEstimate"}
                   THEN IDCommit(Fail(st1), "solve", <<>>)
                   ELSE IF failAt = "extractTorques"
                   THEN IDCommit(Fail(st2), "solve", <<>>)
                   ELSE IDCommit(st3, "solve", <<>>)
    /\ UNCHANGED <<kd, ikVars>>

\* A constructed, never initialized HumanID.
IDInit ==
    /\ id_kinDyn = "null"
    /\ m_humanMass = 0
    /\ m_kinState = [jointsPosition |-> <<>>, jointsVelocity |-> <<>>,
                     baseAngularVelocity |-> 0]
    /\ m_jointTorquesHelper =
           [sensors |-> {}, measurement |-> <<>>, estimatedDynamicVariables |-> <<>>,
            estimatedJointTorques |-> <<>>, solver |-> "null"]
    /\ m_extWrenchesEstimator =
           [kinDyn |-> "null", useFullModel |-> FALSE,
            jointNames |-> <<>>, modelState |-> NoModelState,
            jointPositions |-> <<>>,
            jointVelocities |-> <<>>, jointsPositionArray |-> <<>>,
            jointsVelocityArray |-> <<>>, sensors |-> {}, measurement |-> <<>>,
            estimatedDynamicVariables |-> <<>>, measurementsCovariance |-> <<>>,
            solver |-> "null"]
    /\ m_mapEstParams = [specific |-> <<>>, rcm |-> EmptyCovVector, default |-> 0]
    /\ m_wrenchSources = <<>>
    /\ m_estimatedExtWrenches = <<>>
    /\ id_ret = IDRet("none", <<>>, TRUE)

\* ----------------------------------------------------------- initial state
\* A constructed, never initialized HumanIK: empty registries and vectors, an
\* indeterminate m_nrDoFs, no model handle. The caller's model holds any state.
IKInit ==
    /\ kd \in InitialModelStates
    /\ ik_kinDyn = "null"
    /\ m_nrDoFs \in {0, NrDoFs + 1}
    /\ m_jointPositions = <<>>
    /\ m_jointVelocities = <<>>
    /\ m_basePose = 0
    /\ m_baseVelocity = 0
    /\ m_system = [state |-> [basePose |-> 0, s |-> <<>>], dt |-> 0]
    /\ m_dtIntegration = 0
    /\ m_OrientationTasks = <<>>
    /\ m_GravityTasks = {}
    /\ m_qpIK = [tasks |-> {}, initialized |-> FALSE, finalized |-> FALSE]
    /\ ik_ret = IKRet("none", 0, TRUE, <<>>)
    /\ crashed = FALSE

vars == <<kd, ikVars, idVars, crashed>>

Init == IKInit /\ IDInit

\* ------------------------------------------- HumanIK, the kinematic cycle
\* Configurations of this specification: a well-formed one with one SO3Task, and
\* the ways initialize fails before the task loop.
SO3Group(name, node, rot, defect) ==
    [name |-> name, type |-> "SO3Task", node |-> node, rot |-> rot,
     defect |-> defect]
GravityGroup(name, node, defect) ==
    [name |-> name, type |-> "GravityTask", node |-> node, rot |-> NoRotation,
     defect |-> defect]

IKCycleConfigs ==
    {IKConfig("ok", TRUE, TRUE, TRUE, TRUE, TRUE, <<SO3Group(1, 1, NoRotation, "none")>>),
     IKConfig("ok", TRUE, TRUE, FALSE, TRUE, TRUE, <<SO3Group(1, 1, NoRotation, "none")>>),
     IKConfig("ok", TRUE, TRUE, TRUE, TRUE, FALSE, <<>>),
     IKConfig("expired", TRUE, TRUE, TRUE, TRUE, TRUE, <<>>)}

NextIK ==
    \/ \E kin \in {"null", "invalid", "model"}, cfg \in IKCycleConfigs :
          IKInitialize(kin, cfg, "continue")
    \/ \E dt \in Durations : IKSetDt(dt)
    \/ \E jv \in Velocities, bv \in Velocities, qpOk \in BOOLEAN, ctrlOk \in BOOLEAN :
          IKAdvance(jv, bv, qpOk, TRUE, ctrlOk, TRUE)
    \/ \E jv \in Velocities, validOk \in BOOLEAN, intOk \in BOOLEAN :
          IKAdvance(jv, jv, TRUE, validOk, TRUE, intOk)
    \/ \E n \in 0..(NrDoFs + 1) : getJointPositions(n)
    \/ \E n \in 0..(NrDoFs + 1) : getJointVelocities(n)
    \/ PyGetJointPositions
    \/ PyGetJointVelocities

SpecIK == Init /\ [][NextIK]_vars

\* ------------------------------------------ HumanIK, the per-node operations
\* Angular rates supplied with a setpoint.
Omegas == {1}

\* Configurations of this specification: one or two orientation tasks, with and
\* without rotation_matrix, a gravity task, and a task whose registration fails.
IKNodeConfigs ==
    {IKConfig("ok", TRUE, TRUE, TRUE, TRUE, TRUE, tasks) :
        tasks \in {<<SO3Group(1, 1, NoRotation, "none")>>,
                   <<SO3Group(1, 1, RotSwap, "none"), SO3Group(2, 2, NoRotation, "none")>>,
                   <<SO3Group(1, 2, RotSwap, "none"), GravityGroup(2, 1, "none")>>,
                   <<SO3Group(1, 2, NoRotation, "addTask")>>}}

NextNodes ==
    \/ \E cfg \in IKNodeConfigs : IKInitialize("model", cfg, "continue")
    \/ \E node \in Nodes, R \in RotInputs, w \in Omegas : setNodeSetPoint(node, R, w)
    \/ \E node \in Nodes, R \in RotInputs : TPoseCalibrationNode(node, R)
    \/ clearCalibrationMatrices

SpecNodes == Init /\ [][NextNodes]_vars

\* --------------------------------------- HumanIK, setpoints across cycles
\* The configuration of this specification: orientation tasks on nodes 1 and 2.
IKSetPointConfigs ==
    {IKConfig("ok", TRUE, TRUE, TRUE, TRUE, TRUE,
              <<SO3Group(1, 1, RotSwap, "none"), SO3Group(2, 2, NoRotation, "none")>>)}

NextSetPoints ==
    \/ \E cfg \in IKSetPointConfigs : IKInitialize("model", cfg, "continue")
    \/ \E dt \in Durations : IKSetDt(dt)
    \/ \E node \in Nodes, R \in RotInputs, w \in Omegas : setNodeSetPoint(node, R, w)
    \/ \E jv \in Velocities, intOk \in BOOLEAN : IKAdvance(jv, 0, TRUE, TRUE, TRUE, intOk)

SpecSetPoints == Init /\ [][NextSetPoints]_vars

\* ======================================================= claims on HumanIK
\* The cached state the accessors return.
IKOutputs == <<m_jointPositions, m_jointVelocities, m_basePose, m_baseVelocity>>

\* C4: on an instance that went through initialize, getJointPositions and
\* getJointVelocities succeed exactly when the supplied buffer has NrDoFs
\* entries, a successful call copies the cached vector, a failed one leaves the
\* buffer as it was, and the Python accessors yield a vector of NrDoFs entries.
C4_AccessorsCheckLength ==
    ik_kinDyn = "model" =>
        /\ ik_ret.op \in {"getJointPositions", "getJointVelocities"} =>
              /\ ik_ret.ok <=> (ik_ret.arg = NrDoFs)
              /\ Len(ik_ret.out) = ik_ret.arg
              /\ ik_ret.ok =>
                    ik_ret.out = IF ik_ret.op = "getJointPositions"
                                 THEN m_jointPositions ELSE m_jointVelocities
        /\ ik_ret.op \in {"py_getJointPositions", "py_getJointVelocities"} =>
              /\ ik_ret.ok
              /\ Len(ik_ret.out) = NrDoFs
              /\ ik_ret.out = IF ik_ret.op = "py_getJointPositions"
                              THEN m_jointPositions ELSE m_jointVelocities

\* C4 witness: after an advance that moved the joints, the Python accessor has
\* returned the velocity vector of NrDoFs entries.
C4_Witness ==
    /\ ik_kinDyn = "model"
    /\ ik_ret.op = "py_getJointVelocities"
    /\ ik_ret.ok
    /\ ik_ret.out = Vec(NrDoFs, 1)

\* C5 as claimed: a failed advance leaves the cached joint positions, joint
\* velocities, base pose and base twist, and the state of the articulated
\* model, as they were before the call.
C5_FailedAdvanceKeepsOutputs ==
    [][(ik_ret'.op = "advance" /\ ~ik_ret'.ok) => UNCHANGED <<IKOutputs, kd>>]_vars

\* C6 as claimed: a successful advance integrates base pose and joint positions
\* with the generalized velocity cached by the previous cycle.
C6_IntegratesPreviousVelocity ==
    [][(ik_ret'.op = "advance" /\ ik_ret'.ok) =>
          /\ m_basePose' = Integrate(m_basePose, m_baseVelocity, m_dtIntegration)
          /\ m_jointPositions' =
                [i \in 1..NrDoFs |-> Integrate(m_jointPositions[i],
                                               m_jointVelocities[i],
                                               m_dtIntegration)]]_vars

\* C6 amended: a successful advance integrates base pose and joint positions
\* with the generalized velocity of this cycle's QP solve, the one the
\* velocity accessors return after the call.
C6_IntegratesCurrentVelocity ==
    [][(ik_ret'.op = "advance" /\ ik_ret'.ok) =>
          /\ m_basePose' = Integrate(m_basePose, m_baseVelocity', m_dtIntegration)
          /\ m_jointPositions' =
                [i \in 1..NrDoFs |-> Integrate(m_jointPositions[i],
                                               m_jointVelocities'[i],
                                               m_dtIntegration)]]_vars

\* C6 witness: a successful advance with a non-zero velocity has moved the
\* joints away from both initial configurations.
C6_Witness ==
    /\ ik_ret.op = "advance" /\ ik_ret.ok
    /\ m_jointVelocities = Vec(NrDoFs, 1)
    /\ m_baseVelocity = 1
    /\ m_jointPositions = Vec(NrDoFs, 2)

\* C7: setNodeSetPoint and TPoseCalibrationNode on a node number that is not in
\* the registry return false and leave the registry (its keys and every entry's
\* setpoint, calibration matrix and IMU-to-link rotation) unchanged.
C7_UnconfiguredNodeRejected ==
    [][(/\ ik_ret'.op \in {"setNodeSetPoint", "TPoseCalibrationNode"}
        /\ ik_ret'.arg \notin DOMAIN m_OrientationTasks) =>
          /\ ~ik_ret'.ok
          /\ UNCHANGED <<m_OrientationTasks, m_GravityTasks>>]_vars

\* C7 witness: a call on unconfigured node 3 has been rejected while nodes 1 and
\* 2 hold a calibration and a setpoint.
C7_Witness ==
    /\ ik_ret.op = "TPoseCalibrationNode" /\ ik_ret.arg = 3 /\ ~ik_ret.ok
    /\ DOMAIN m_OrientationTasks = {1, 2}
    /\ \A n \in {1, 2} : /\ m_OrientationTasks[n].setPoint # NoSetPoint
                         /\ m_OrientationTasks[n].calibrationMatrix # DefaultCalibration

\* ================================================= HumanID, the solve cycle
\* SENSOR_REMOVAL groups.
Removal(acc, gyro) == [t \in {"ACCELEROMETER_SENSOR", "GYROSCOPE_SENSOR"} |->
                          IF t = "ACCELEROMETER_SENSOR" THEN acc ELSE gyro]

\* Well-formed wrench sources.
FixedSource(frame) == SourceGroup(frame, "fixed", 1, 0, "none")
DummySource(frame) == SourceGroup(frame, "dummy", 0, 1, "none")

\* Configurations of this specification: well-formed ones with one and two
\* wrench sources, and one whose second source has an invalid type.
IDCycleConfigs ==
    {IDConfig("ok", "none", 1, Removal(NoEntry, NoEntry), TRUE, <<FixedSource(2)>>),
     IDConfig("ok", "none", 1, Removal(NoEntry, NoEntry), TRUE,
              <<DummySource(2), FixedSource(1)>>),
     IDConfig("ok", "none", 1, Removal(NoEntry, NoEntry), TRUE,
              <<FixedSource(1), SourceGroup(2, "fixed", 1, 0, "badType")>>)}

\* Posteriors the two MAP solvers may return.
EWEstimates == [EWDynamicVariables -> Wrenches]
JTEstimates ==
    {[x \in JTDynamicVariables |-> IF x.type = "DOF_TORQUE" THEN t ELSE w] :
        t \in Torques, w \in Wrenches}
SolveFailPoints == {"none", "ewEstimate", "jtKinematics", "jtEstimate", "extractTorques"}

NextID ==
    \/ \E cfg \in IDCycleConfigs, g \in Wrenches : IDInitialize("model", cfg, "continue", g)
    \/ \E est1 \in EWEstimates, est2 \in JTEstimates, failAt \in SolveFailPoints,
          ub \in {"crash", "continue"} : IDSolve(est1, est2, failAt, ub)

SpecID == Init /\ [][NextID]_vars

\* ===================================================== the two initializes
\* HumanID configurations of this specification: the base configuration failing
\* at each step in turn, each kind of SENSOR_REMOVAL group, and well-formed and
\* malformed wrench-source lists.
IDBaseRemoval == Removal(NoEntry, NoEntry)
IDInitConfigs ==
    {IDConfig("ok", f, 1, IDBaseRemoval, TRUE, <<FixedSource(1)>>) : f \in IDFailPoints}
    \cup {IDConfig("expired", "none", 1, IDBaseRemoval, TRUE, <<>>)}
    \cup {IDConfig("ok", "none", 1, r, TRUE, <<>>) :
             r \in {Removal("*", NoEntry), Removal("acc1", "*"),
                    Removal(NoEntry, "ghost"), Removal("acc3", "gyro1")}}
    \cup {IDConfig("ok", "none", 1, Removal(NoEntry, "*"), FALSE, <<>>)}
    \cup {IDConfig("ok", "none", 1, IDBaseRemoval, TRUE, srcs) :
             srcs \in {<<DummySource(2), FixedSource(1)>>,
                       <<FixedSource(2), SourceGroup(1, "dummy", 0, 1, "noValues")>>,
                       <<SourceGroup(1, "other", 0, 0, "badType")>>}}

\* HumanIK configurations of this specification: a well-formed one, one without
\* the IK group, and ones failing inside and before the task loop.
IKInitConfigs ==
    {IKConfig("ok", TRUE, TRUE, TRUE, TRUE, TRUE, <<SO3Group(1, 1, NoRotation, "none")>>),
     IKConfig("ok", TRUE, FALSE, TRUE, TRUE, TRUE, <<GravityGroup(1, 2, "none")>>),
     IKConfig("ok", TRUE, TRUE, TRUE, TRUE, TRUE,
              <<SO3Group(1, 1, RotSwap, "none"), SO3Group(2, 2, NoRotation, "initialize")>>),
     IKConfig("ok", FALSE, TRUE, TRUE, TRUE, TRUE, <<>>)}

\* One model at rest and a definite m_nrDoFs.
InitAtRest ==
    /\ Init
    /\ kd = [basePose |-> 0, s |-> Vec(NrDoFs, 1), baseVel |-> 0,
             sdot |-> Vec(NrDoFs, 0)]
    /\ m_nrDoFs = 0

NextInit ==
    \/ \E kin \in {"null", "invalid", "model"}, cfg \in IDInitConfigs,
          ub \in {"crash", "continue"} : IDInitialize(kin, cfg, ub, 1)
    \/ \E kin \in {"null", "model"}, cfg \in IKInitConfigs,
          ub \in {"crash", "continue"} : IKInitialize(kin, cfg, ub)

SpecInit == InitAtRest /\ [][NextInit]_vars

\* ======================================================= claims on HumanID
\* What getEstimatedExtWrenches() and getJointTorques() return (lines 250-258).
IDOutputs == <<m_estimatedExtWrenches, m_jointTorquesHelper.estimatedJointTorques>>

\* C1 as claimed: whenever solve returns false, the values returned by
\* getEstimatedExtWrenches() and getJointTorques() are those of before the call.
C1_FailedSolveKeepsOutputs ==
    [][(id_ret'.op = "solve" /\ ~id_ret'.ok) => UNCHANGED IDOutputs]_vars

\* C2 as claimed: after a successful solve, the block of every link's net
\* external wrench sensor in the joint-torque estimator's measurement vector
\* holds the wrench the external-wrench estimator produced for that link in
\* this call.
C2_EstimatesInjectedIntoMeasurement ==
    (id_ret.op = "solve" /\ id_ret.ok) =>
        \A l \in Links :
            m_jointTorquesHelper.measurement[[type |-> "NET_EXT_WRENCH_SENSOR", id |-> l]]
              = m_extWrenchesEstimator.estimatedDynamicVariables[
                    [type |-> "NET_EXT_WRENCH", id |-> l]]

\* The sensors a SENSOR_REMOVAL group selects: the named one, or with "*" all
\* sensors of the type.
SelectedForRemoval(removal, x) ==
    removal[x.type] = "*" \/ removal[x.type] = x.id

\* C3 as claimed: after a successful HumanID::initialize, no sensor selected by
\* a SENSOR_REMOVAL entry is in the sensor ordering of the joint-torque
\* estimator.
C3_RemovedSensorsAbsent ==
    (id_ret.op = "initialize" /\ id_ret.ok) =>
        \A x \in ModelSensors :
            SelectedForRemoval(id_ret.arg.removal, x) => x \notin m_jointTorquesHelper.sensors

\* C8 as claimed: an initialize that returned false leaves nothing behind: no
\* wrench source and no model handle in HumanID, no task in the registries or
\* in the QP solver and no model handle in HumanIK.
C8_FailedInitializeLeavesNothing ==
    /\ (id_ret.op = "initialize" /\ ~id_ret.ok) =>
          /\ m_wrenchSources = <<>>
          /\ id_kinDyn = "null"
    /\ (ik_ret.op = "initialize" /\ ~ik_ret.ok) =>
          /\ m_OrientationTasks = <<>>
          /\ m_GravityTasks = {}
          /\ m_qpIK.tasks = {}
          /\ ik_kinDyn = "null"

\* C9 as claimed: no initialize call, whatever its configuration, terminates
\* the process.
C9_InitializeNeverCrashes == ~crashed

\* C10 as claimed: when a SENSOR_REMOVAL entry names a sensor the model's sensor
\* list does not hold, HumanID::initialize returns false.
C10_UnremovableSensorRejected ==
    (id_ret.op = "initialize" /\ id_ret.ok) =>
        \A i \in 1..Len(mapBerdySensorType) :
            LET type == mapBerdySensorType[i]
                entry == id_ret.arg.removal[type]
            IN  entry \notin {NoEntry, "*"} =>
                    [type |-> type, id |-> entry] \in ModelSensors

\* =================================== HumanID::updateExtWrenchesMeasurements

\* iDynTree::Transform applied to a wrench, and a wrench scaled by a number.
TransformWrench(T, w) == (w + T) % Cardinality(Wrenches)
ScaleWrench(w, k) == (w * k) % Cardinality(Wrenches)

\* getWorldTransform(frame).getRotation() of the estimator's model (line 123).
FrameRotation(modelState, frame) ==
    IF frame \in DOMAIN modelState.s
    THEN modelState.s[frame] % Cardinality(Wrenches) ELSE 0

\* The raw measurements a caller may hand over: a map from frames to wrenches.
WrenchMaps == UNION {[S -> Wrenches] : S \in SUBSET Links}

\* Line 127: wrenches.find(outputFrame) == wrenches.end().
MissingMeasurementAsNever(wrenches, source) == FALSE

MissingMeasurement(wrenches, source) == source.outputFrame \notin DOMAIN wrenches

\* Line 135: wrenches.at(outputFrame), reached only behind the find() of line
\* 127.
RawWrench(wrenches, frame) ==
    IF frame \in DOMAIN wrenches THEN wrenches[frame] ELSE 0

\* Lines 118-148: the loop over m_wrenchSources, from position i on. A Dummy
\* source only takes the rotation of its frame into outputFrameTransform; a
\* Fixed source stores the transformed raw wrench and writes it into the block
\* of its output frame. The result says whether the call returned false in the
\* loop and gives the sources and the measurement vector as the loop leaves
\* them.
RECURSIVE UpdateSources(_, _, _, _, _)
UpdateSources(ws, meas, wrenches, modelState, i) ==
    IF i > Len(ws) THEN [returned |-> FALSE, ws |-> ws, meas |-> meas]
    ELSE LET src == ws[i]
             block == [type |-> "NET_EXT_WRENCH_SENSOR", id |-> src.outputFrame]
             w == TransformWrench(src.outputFrameTransform,
                                  RawWrench(wrenches, src.outputFrame))
         IN  IF src.type = "Dummy"
             THEN UpdateSources(
                      [ws EXCEPT ![i].outputFrameTransform =
                                     FrameRotation(modelState, src.outputFrame)],
                      meas, wrenches, modelState, i + 1)
             ELSE IF MissingMeasurement(wrenches, src)
             THEN [returned |-> TRUE, ws |-> ws, meas |-> meas]
             ELSE UpdateSources([ws EXCEPT ![i].wrench = w],
                                [meas EXCEPT ![block] = w],
                                wrenches, modelState, i + 1)

\* base_H_centroidal (lines 666-669): built from the center of mass and the
\* base pose of m_kinDyn.
BaseHCentroidal(model) ==
    (model.basePose + model.s[1]) % Cardinality(Wrenches)

\* Lines 656-674: computeRCMInBaseFrame. The local world_gravity (line 660) is
\* declared and never assigned: it holds what its storage holds (g).
computeRCMInBaseFrame(g) ==
    TransformWrench(BaseHCentroidal(kd), ScaleWrench(g, -m_humanMass))

\* Lines 97-109: the joints of the secondary model (names, in index order) whose
\* name is the name of a joint of the caller's model take that joint's entry of
\* primary; the other entries of own stay.
SyncJointsAsByIndex(names, own, primary) ==
    [i \in DOMAIN own |-> primary[i]]
SyncJoints(names, own, primary) ==
    [i \in DOMAIN own |->
        IF names[i] \in DOMAIN primary THEN primary[names[i]] ELSE own[i]]

\* Lines 87-115: the synchronization of the secondary model with the state
\* read from the caller's model.
SyncSecondaryModel(ew, primary) ==
    LET jp == SyncJoints(ew.jointNames, ew.jointPositions, primary.s)
        jv == SyncJoints(ew.jointNames, ew.jointVelocities, primary.sdot)
    IN  [ew EXCEPT !.jointPositions = jp, !.jointVelocities = jv,
                   \* lines 110-114
                   !.modelState = [basePose |-> primary.basePose, s |-> jp,
                                   baseVel |-> primary.baseVel, sdot |-> jv,
                                   gravity |-> primary.gravity]]

\* Lines 83-158: updateExtWrenchesMeasurements(wrenches), on an instance whose
\* initialize succeeded (useFullModel is then true). g is the content of the
\* unassigned local of computeRCMInBaseFrame.
IDUpdate(wrenches, g) ==
    /\ ~crashed
    /\ m_extWrenchesEstimator.solver = "valid"
    /\ m_jointTorquesHelper.solver = "valid"
    /\ LET ew0 == IF m_extWrenchesEstimator.useFullModel
                  THEN SyncSecondaryModel(m_extWrenchesEstimator, getRobotState)
                  ELSE m_extWrenchesEstimator
           ms == SecondaryModelState(ew0)
           \* line 117
           ew1 == [ew0 EXCEPT !.measurement = [x \in DOMAIN @ |-> 0]]
           loop == UpdateSources(m_wrenchSources, ew1.measurement, wrenches, ms, 1)
           rcm == [type |-> "RCM_SENSOR", id |-> 0]
           st1 == [IDState EXCEPT !.ew = [ew1 EXCEPT !.measurement = loop.meas],
                                  !.wrenchSources = loop.ws]
           \* lines 149-156
           st2 == [st1 EXCEPT !.ew.measurement[rcm] = computeRCMInBaseFrame(g)]
       IN  IF loop.returned
           THEN IDCommit(Fail(st1), "update", wrenches)
           ELSE IDCommit(st2, "update", wrenches)
    /\ UNCHANGED <<kd, ikVars, crashed>>

\* ======================================== HumanID, measurements and solve
\* The configuration of this specification: a Fixed source on link 1 and a
\* Dummy source on link 2.
IDUpdateConfigs ==
    {IDConfig("ok", "none", 1, Removal(NoEntry, NoEntry), TRUE,
              <<FixedSource(1), DummySource(2)>>)}

\* Posteriors of the joint-torque solver in this specification.
UpdateJTEstimates == {e \in JTEstimates : e[[type |-> "NET_EXT_WRENCH", id |-> 1]] = 0}

NextUpdate ==
    \/ \E cfg \in IDUpdateConfigs, g \in Wrenches :
          IDInitialize("model", cfg, "continue", g)
    \/ \E wrenches \in WrenchMaps, g \in Wrenches : IDUpdate(wrenches, g)
    \/ \E est1 \in EWEstimates, est2 \in UpdateJTEstimates,
          failAt \in SolveFailPoints :
          IDSolve(est1, est2, failAt, "continue")

SpecUpdate == Init /\ [][NextUpdate]_vars

\* ------------------------------------ claims on the measurement update
\* The wrench sources of the instance that are Fixed and whose output frame the
\* map wrenches has no entry for.
FixedWithoutMeasurement(wrenches) ==
    {i \in 1..Len(m_wrenchSources) :
        /\ m_wrenchSources[i].type = "Fixed"
        /\ m_wrenchSources[i].outputFrame \notin DOMAIN wrenches}

C12_EverySourceMeasured ==
    (id_ret.op = "update" /\ id_ret.ok) =>
        \A i \in 1..Len(m_wrenchSources) :
            LET src == m_wrenchSources[i]
                held == m_extWrenchesEstimator.measurement[
                            [type |-> "NET_EXT_WRENCH_SENSOR", id |-> src.outputFrame]]
            IN  IF src.type = "Fixed"
                THEN held = TransformWrench(src.outputFrameTransform,
                                            id_ret.arg[src.outputFrame])
                ELSE held = TransformWrench(
                                FrameRotation(m_extWrenchesEstimator.modelState,
                                              src.outputFrame),
                                src.wrench)

\* C13 as claimed: after a successful updateExtWrenchesMeasurements, the RCM
\* block holds the body weight, humanMass times the model's gravity, carried
\* into the base frame.
C13_RCMIsBodyWeight ==
    (id_ret.op = "update" /\ id_ret.ok) =>
        m_extWrenchesEstimator.measurement[[type |-> "RCM_SENSOR", id |-> 0]]
          = TransformWrench(BaseHCentroidal(kd), ScaleWrench(Gravity, m_humanMass))

\* C14 as claimed: what a call leaves in the measurement vectors is fixed by the
\* state before the call and the call's arguments: the RCM block an update
\* writes and the joint-torque measurement vector an initialize leaves are the
\* same whatever the storage they are built from held.
C14_Deterministic ==
    [][/\ (id_ret'.op = "update" /\ id_ret'.ok) =>
              \A g \in Wrenches :
                  m_extWrenchesEstimator'.measurement[[type |-> "RCM_SENSOR", id |-> 0]]
                    = computeRCMInBaseFrame(g)
       /\ (id_ret'.op = "initialize" /\ id_ret'.ok) =>
              \A g \in Wrenches :
                  m_jointTorquesHelper'.measurement
                    = ResizeMeasurement(m_jointTorquesHelper.measurement,
                                        m_jointTorquesHelper'.sensors, g)]_vars

\* C17 as claimed: after a successful initialize, getEstimatedExtWrenches() has
\* one entry per source of the wrenchSources list of that call, entry i
\* belonging to the i-th source of the list.
C17_OneEntryPerConfiguredSource ==
    (id_ret.op = "initialize" /\ id_ret.ok) =>
        /\ Len(m_estimatedExtWrenches) = Len(id_ret.arg.sources)
        /\ Len(m_wrenchSources) = Len(id_ret.arg.sources)
        /\ \A i \in 1..Len(id_ret.arg.sources) :
              m_wrenchSources[i].outputFrame = id_ret.arg.sources[i].outputFrame

\* ------------------------------------ claims on calibration and setpoints
\* The calibration matrix, and the setpoint, of every node of a registry.
Calibrations(ot) == [n \in DOMAIN ot |-> ot[n].calibrationMatrix]

\* C15: a successful setNodeSetPoint(node, R, w) stores calibration * R *
\* IMU_R_link with the calibration the node holds at the call, touches no other
\* node and changes no calibration; a calibration call changes only its own
\* node's matrix; and neither a calibration call nor a clear changes a setpoint
\* already pushed.
C15_SetPointUsesCurrentCalibration ==
    [][/\ (ik_ret'.op = "setNodeSetPoint" /\ ik_ret'.ok) =>
             /\ m_OrientationTasks'[ik_ret'.arg].setPoint.R =
                    RotMul(RotMul(m_OrientationTasks[ik_ret'.arg].calibrationMatrix,
                                  ik_ret'.out),
                           m_OrientationTasks[ik_ret'.arg].IMU_R_link)
             /\ \A n \in DOMAIN m_OrientationTasks \ {ik_ret'.arg} :
                    m_OrientationTasks'[n] = m_OrientationTasks[n]
             /\ Calibrations(m_OrientationTasks') = Calibrations(m_OrientationTasks)
       /\ (ik_ret'.op = "TPoseCalibrationNode" /\ ik_ret'.ok) =>
             /\ QPSetPoints(m_OrientationTasks') = QPSetPoints(m_OrientationTasks)
             /\ \A n \in DOMAIN m_OrientationTasks \ {ik_ret'.arg} :
                    m_OrientationTasks'[n] = m_OrientationTasks[n]
       /\ ik_ret'.op = "clearCalibrationMatrices" =>
             QPSetPoints(m_OrientationTasks') = QPSetPoints(m_OrientationTasks)
      ]_vars

\* A setpoint pushed on node 1 while nodes 1 and 2 hold different calibrations,
\* neither the identity, and node 2 holds a setpoint of its own.
C15_Witness ==
    /\ ik_ret.op = "setNodeSetPoint" /\ ik_ret.ok /\ ik_ret.arg = 1
    /\ DOMAIN m_OrientationTasks = {1, 2}
    /\ m_OrientationTasks[1].calibrationMatrix # DefaultCalibration
    /\ m_OrientationTasks[2].calibrationMatrix # DefaultCalibration
    /\ m_OrientationTasks[1].calibrationMatrix # m_OrientationTasks[2].calibrationMatrix
    /\ m_OrientationTasks[1].IMU_R_link # RotId
    /\ m_OrientationTasks[2].setPoint # NoSetPoint

\* C16: the calibration matrix a successful TPoseCalibrationNode(node, R) stores
\* is the one the same call stores on a node holding the identity calibration:
\* it does not depend on the matrix the node held before.
C16_RecalibrationIgnoresPrevious ==
    [][(ik_ret'.op = "TPoseCalibrationNode" /\ ik_ret'.ok) =>
          m_OrientationTasks'[ik_ret'.arg].calibrationMatrix =
              RotMul(calib_R_link,
                     RotInv(RotMul(ik_ret'.out,
                                   m_OrientationTasks[ik_ret'.arg].IMU_R_link)))]_vars

\* A node recalibrated with the rotation RotSwap, having an IMU-to-link
\* rotation of its own, while the other node keeps another calibration.
C16_Witness ==
    /\ ik_ret.op = "TPoseCalibrationNode" /\ ik_ret.ok /\ ik_ret.arg = 1
    /\ ik_ret.out = RotSwap
    /\ DOMAIN m_OrientationTasks = {1, 2}
    /\ m_OrientationTasks[1].IMU_R_link = RotSwap
    /\ m_OrientationTasks[1].calibrationMatrix = calib_R_link
    /\ m_OrientationTasks[2].calibrationMatrix \notin {DefaultCalibration, calib_R_link}

C19_ModelHoldsCachedState ==
    (ik_ret.op = "advance" /\ ik_ret.ok) =>
        /\ kd.basePose = m_basePose
        /\ kd.s = m_jointPositions
        /\ kd.baseVel = m_baseVelocity
        /\ kd.sdot = m_jointVelocities

\* A successful advance with non-zero velocities that moved base and joints
\* away from the state the model held at initialize.
C19_Witness ==
    /\ ik_ret.op = "advance" /\ ik_ret.ok
    /\ m_baseVelocity = 1
    /\ m_jointVelocities = Vec(NrDoFs, 1)
    /\ m_basePose = 2
    /\ kd.s = Vec(NrDoFs, 2)

\* C20 as claimed: after a HumanIK::initialize that returned true, the QP solver
\* is initialized and its variable layout finalized.
C20_TrueOnlyIfEveryStepSucceeded ==
    (ik_ret.op = "initialize" /\ ik_ret.ok) =>
        (m_qpIK.initialized /\ m_qpIK.finalized)

\* ============================== HumanID, the measurement covariance
\* Configurations of this specification: no wrench source, and covariance
\* parameters with and without a specific element, with a specific vector of
\* fewer than BlockSize entries, with a negative default, and one whose
\* default_cov_measurements is missing.
IDCovBase == IDConfig("ok", "none", 1, Removal(NoEntry, NoEntry), TRUE, <<>>)
IDCovConfigs ==
    {WithCovariance(IDCovBase, cov) :
        cov \in {Covariance(<<>>, CovVector(BlockSize, 3), 1),
                 Covariance([k \in {1} |-> CovVector(BlockSize, 2)],
                            CovVector(BlockSize, 3), 1),
                 Covariance([k \in {2} |-> CovVector(BlockSize - 1, 2)],
                            CovVector(BlockSize, 3), 1),
                 Covariance(<<>>, CovVector(BlockSize, 3), -1)}}
    \cup {WithCovariance(IDConfig("ok", "default_cov_measurements", 1,
                                  Removal(NoEntry, NoEntry), TRUE, <<>>),
                         Covariance([k \in {2} |-> CovVector(BlockSize, 2)],
                                    CovVector(BlockSize, 2), 2))}

NextCov ==
    \/ \E cfg \in IDCovConfigs, ub \in {"crash", "continue"}, g \in Wrenches :
          IDInitialize("model", cfg, ub, g)
    \/ \E wrenches \in WrenchMaps, g \in Wrenches : IDUpdate(wrenches, g)

SpecCov == Init /\ [][NextCov]_vars

\* C21 as claimed: after a successful initialize, the covariance block of every
\* net external wrench sensor holds the vector the configuration gives for the
\* sensor's id when specificElements lists it and default_cov_measurements
\* otherwise, the block of the RCM sensor holds cov_measurements_RCM_SENSOR,
\* and no entry is negative.
C21_CovarianceFromConfiguration ==
    (id_ret.op = "initialize" /\ id_ret.ok) =>
        LET cov == id_ret.arg.covariance
        IN  \A x \in m_extWrenchesEstimator.sensors :
                LET held == m_extWrenchesEstimator.measurementsCovariance[x]
                IN  /\ held >= 0
                    /\ x.type = "RCM_SENSOR" => held = cov.rcm.v
                    /\ x.type = "NET_EXT_WRENCH_SENSOR" =>
                          held = IF x.id \in DOMAIN cov.specific
                                 THEN cov.specific[x.id].v ELSE cov.default

\* ================================ HumanID, the two models across the cycles
\* The configurations of this specification: the sources of IDUpdateConfigs,
\* with a model file whose joints all carry names of the caller's model, and
\* with one whose last joint does not.
IDSyncConfigs ==
    {WithModelJoints(cfg, names) :
        cfg \in IDUpdateConfigs, names \in {MatchedJoints, PartlyMatchedJoints}}

\* States the caller gives its model between two cycles.
CallerStates ==
    {[basePose |-> b, s |-> Vec(NrDoFs, p), baseVel |-> 1, sdot |-> Vec(NrDoFs, 1)] :
        b \in {0, 2}, p \in {1, 2}}

\* The caller moves its model: KinDynComputations::setRobotState on the object
\* the instance was initialized with.
KinDynSetRobotState(st) ==
    /\ ~crashed
    /\ kd' = setRobotState(st.basePose, st.s, st.baseVel, st.sdot)
    /\ UNCHANGED <<ikVars, idVars, crashed>>

NextSync ==
    \/ \E cfg \in IDSyncConfigs, g \in Wrenches :
          IDInitialize("model", cfg, "continue", g)
    \/ \E st \in CallerStates : KinDynSetRobotState(st)
    \/ \E wrenches \in WrenchMaps, g \in Wrenches : IDUpdate(wrenches, g)

SpecSync == Init /\ [][NextSync]_vars

\* ---------------------------------------------- claims on the two models
\* C22: every updateExtWrenchesMeasurements call, whatever it returns, leaves
\* the secondary model synchronized with the caller's model: a joint whose name
\* is the name of a joint of the caller's model has that joint's position and
\* velocity, a joint without such a name has the position and velocity it had
\* before the call, base pose, base twist and gravity are those of the
\* caller's model, and the state of the caller's model is as before the call.
C22_SecondaryModelSynchronized ==
    [][(\E wrenches \in WrenchMaps, g \in Wrenches : IDUpdate(wrenches, g)) =>
          LET names == m_extWrenchesEstimator.jointNames
              before == m_extWrenchesEstimator.modelState
              after == m_extWrenchesEstimator'.modelState
          IN  /\ DOMAIN after.s = DOMAIN names
              /\ \A i \in DOMAIN names :
                    IF names[i] \in DOMAIN kd.s
                    THEN /\ after.s[i] = kd.s[names[i]]
                         /\ after.sdot[i] = kd.sdot[names[i]]
                    ELSE /\ after.s[i] = before.s[i]
                         /\ after.sdot[i] = before.sdot[i]
              /\ after.basePose = kd.basePose
              /\ after.baseVel = kd.baseVel
              /\ after.gravity = Gravity
              /\ kd' = kd]_vars

\* An update has run on an instance whose model file has a joint the caller's
\* model lacks, after the caller moved its model: the named joint follows, the
\* other one is where loadRobotModel left it, the base follows.
C22_Witness ==
    /\ id_ret.op = "update"
    /\ m_extWrenchesEstimator.jointNames = PartlyMatchedJoints
    /\ kd.s = Vec(NrDoFs, 2)
    /\ kd.basePose = 2
    /\ m_extWrenchesEstimator.modelState.s[1] = 2
    /\ m_extWrenchesEstimator.modelState.sdot[1] = 1
    /\ m_extWrenchesEstimator.modelState.s[NrDoFs] = 0
    /\ m_extWrenchesEstimator.modelState.basePose = 2
    /\ m_extWrenchesEstimator.modelState.gravity = Gravity

\* The sizes of the vectors the estimators work on: measurement and
\* dynamic-variable vector of either estimator, joint torques, estimated
\* wrenches.
IDSizes ==
    <<DOMAIN m_extWrenchesEstimator.measurement,
      DOMAIN m_extWrenchesEstimator.estimatedDynamicVariables,
      DOMAIN m_jointTorquesHelper.measurement,
      DOMAIN m_jointTorquesHelper.estimatedDynamicVariables,
      Len(m_jointTorquesHelper.estimatedJointTorques),
      Len(m_estimatedExtWrenches)>>

\* C23: on an instance whose initialize succeeded, no updateExtWrenchesMeasurements
\* call and no solve call, returning true or false, changes the size of either
\* estimator's measurement vector or dynamic-variable vector, of the
\* joint-torque vector or of the estimated-wrench vector.
C23_SizesFixedAfterInitialize ==
    [][id_ret'.op \in {"update", "solve"} => UNCHANGED IDSizes]_vars

\* A solve that failed at the torque extraction has followed a full cycle: the
\* vectors are filled and keep the sizes initialize gave them.
C23_Witness ==
    /\ id_ret.op = "solve"
    /\ ~id_ret.ok
    /\ DOMAIN m_extWrenchesEstimator.measurement = EWSensorsOrdering
    /\ DOMAIN m_jointTorquesHelper.estimatedDynamicVariables = JTDynamicVariables
    /\ Len(m_jointTorquesHelper.estimatedJointTorques) = NrDoFs
    /\ \E j \in 1..NrDoFs : m_jointTorquesHelper.estimatedJointTorques[j] = 1
    /\ Len(m_estimatedExtWrenches) = Len(m_wrenchSources)
    /\ \E i \in 1..Len(m_estimatedExtWrenches) : m_estimatedExtWrenches[i] = 1

\* The Fixed wrench sources of the instance whose output frame is frame.
FixedSourcesOn(frame) ==
    {i \in 1..Len(m_wrenchSources) :
        /\ m_wrenchSources[i].type = "Fixed"
        /\ m_wrenchSources[i].outputFrame = frame}

\* C24 as claimed: after a successful updateExtWrenchesMeasurements, every
\* entry of the external-wrench measurement vector is fixed by the call's
\* wrench map and the model state: the block of a Fixed source's frame holds
\* the transformed wrench supplied for it, the RCM block holds the one value
\* the model state gives, whatever storage it was built from, and every other
\* block is zero.
C24_MeasurementFromCurrentCycle ==
    (id_ret.op = "update" /\ id_ret.ok) =>
        \A x \in DOMAIN m_extWrenchesEstimator.measurement :
            LET held == m_extWrenchesEstimator.measurement[x]
            IN  IF x.type = "RCM_SENSOR"
                THEN \A g \in Wrenches : held = computeRCMInBaseFrame(g)
                ELSE IF FixedSourcesOn(x.id) # {}
                THEN \E i \in FixedSourcesOn(x.id) :
                         held = TransformWrench(m_wrenchSources[i].outputFrameTransform,
                                                id_ret.arg[x.id])
                ELSE held = 0

====
